---- MODULE Spec2Model ----
(***************************************************************************)
(* luks-header-backup (src/src/main.rs): discovery of LUKS devices by      *)
(* parsing `blkid -o export`, construction of the header artifacts in a    *)
(* temporary directory, and replication to local directories and remote    *)
(* scp endpoints.                                                          *)
(*                                                                         *)
(* Text is a sequence of tokens: NL is the line feed, EQ the '=' sign, and *)
(* every other token is a run of characters holding neither.  Carriage     *)
(* returns do not occur in the inputs.  File contents are sequences of     *)
(* bytes; file names are the strings the program formats.                  *)
(***************************************************************************)
EXTENDS Integers, Sequences, FiniteSets, TLC

\* ------------------------------------------------------------------ bounds
MaxRecords == 2
MaxLocal == 2
MaxRemote == 2
HeaderLen == 2
MaxLineToks == 3
MaxSegLines == 2

\* ------------------------------------------------------- text and parsing
NL == "\n"
EQ == "="

RECURSIVE Concat(_)
\* The string a token sequence spells.
Concat(toks) == IF toks = <<>> THEN "" ELSE Head(toks) \o Concat(Tail(toks))

RECURSIVE SplitAt(_, _, _, _)
\* The pieces of s from position `start` on, cut at every occurrence of the
\* separator found scanning left to right from position i (occurrences do not
\* overlap); there is always at least one piece.
SplitAt(s, sep, start, i) ==
    IF i + Len(sep) - 1 > Len(s) THEN <<SubSeq(s, start, Len(s))>>
    ELSE IF SubSeq(s, i, i + Len(sep) - 1) = sep
         THEN <<SubSeq(s, start, i - 1)>> \o SplitAt(s, sep, i + Len(sep), i + Len(sep))
         ELSE SplitAt(s, sep, start, i + 1)

\* str::split("\n\n").
SplitBlank(s) == SplitAt(s, <<NL, NL>>, 1, 1)

\* The pieces between line feeds (the last piece may be empty).
SplitNL(s) == SplitAt(s, <<NL>>, 1, 1)

\* str::lines(): the final line ending is optional, so a trailing empty piece
\* is no line.
Lines(s) ==
    LET p == SplitNL(s)
    IN IF p[Len(p)] = <<>> THEN SubSeq(p, 1, Len(p) - 1) ELSE p

HasEq(line) == \E i \in 1..Len(line) : line[i] = EQ

\* The line is cut at its last '='.
split_once_Last(line) ==
    LET i == CHOOSE j \in 1..Len(line) :
                line[j] = EQ /\ \A k \in (j + 1)..Len(line) : line[k] # EQ
    IN [key |-> Concat(SubSeq(line, 1, i - 1)),
        value |-> Concat(SubSeq(line, i + 1, Len(line)))]

\* str::split_once('='): key and value around the FIRST '='.
split_once(line) ==
    LET i == CHOOSE j \in 1..Len(line) :
                line[j] = EQ /\ \A k \in 1..(j - 1) : line[k] # EQ
    IN [key |-> Concat(SubSeq(line, 1, i - 1)),
        value |-> Concat(SubSeq(line, i + 1, Len(line)))]

EmptyMap == [k \in {} |-> ""]

\* HashMap::insert: replaces the value of a key already present.
Insert(m, k, v) == [x \in DOMAIN m \cup {k} |-> IF x = k THEN v ELSE m[x]]

RECURSIVE SegmentMap(_, _)
\* Lines 49-54: the key/value map of one segment.
SegmentMap(ls, m) ==
    IF ls = <<>> THEN m
    ELSE LET line == Head(ls)
             kv == split_once(line)
         IN SegmentMap(Tail(ls), IF HasEq(line) THEN Insert(m, kv.key, kv.value) ELSE m)

\* The type check without the comparison: any segment with a TYPE passes.
IsLuks_AnyType(map) == "TYPE" \in DOMAIN map

\* Line 55: the segment is a LUKS record.
IsLuks(map) == "TYPE" \in DOMAIN map /\ map["TYPE"] = "crypto_LUKS"

\* Line 56: both fields are present.
HasDevAndUuid(map) == "DEVNAME" \in DOMAIN map /\ "UUID" \in DOMAIN map

RECURSIVE ParseSegments(_, _)
\* Lines 48-63: the loop over the segments.
ParseSegments(segs, result) ==
    IF segs = <<>> THEN result
    ELSE LET map == SegmentMap(Lines(Head(segs)), EmptyMap)
         IN ParseSegments(Tail(segs),
                          IF IsLuks(map) /\ HasDevAndUuid(map)
                          THEN Insert(result, map["DEVNAME"], map["UUID"])
                          ELSE result)

\* Always Ok(result): the function has no error path.
parse_blkid_output(output_str) == ParseSegments(SplitBlank(output_str), EmptyMap)

\* ------------------------------------------------- export text (the inputs)
Absent == "<absent>"
DevNames == {"/dev/sda1", "/dev/sdb1"}
Uuids == {"1234", "8765"}
Types == {"crypto_LUKS", "ext4"}
\* A further line a record may end with: a line without '=', or a second TYPE.
ExtraLines == {<<"INVALID">>, <<"TYPE", EQ, "ext4">>}
NoExtra == <<>>

\* A record: its DEVNAME, UUID and TYPE lines, each present or not, and then the
\* further line, which is tried on the LUKS records and on its own.
Records ==
    {r \in [dev : DevNames \cup {Absent}, uuid : Uuids \cup {Absent},
            type : Types \cup {Absent}, extra : ExtraLines \cup {NoExtra}] :
        \/ r.extra = NoExtra
        \/ r.type = "crypto_LUKS"
        \/ r.dev = Absent /\ r.uuid = Absent /\ r.type = Absent}

KeyLine(k, v) == IF v = Absent THEN <<>> ELSE <<<<k, EQ, v>>>>

\* The lines of a record, in the order blkid prints them.
RecordLines(r) ==
    KeyLine("DEVNAME", r.dev) \o KeyLine("UUID", r.uuid) \o KeyLine("TYPE", r.type)
        \o (IF r.extra = NoExtra THEN <<>> ELSE <<r.extra>>)

RECURSIVE TextOf(_)
\* Every line ends with a line feed.
TextOf(ls) == IF ls = <<>> THEN <<>> ELSE Head(ls) \o <<NL>> \o TextOf(Tail(ls))

RECURSIVE Serialize(_)
\* The export text of a list of records: one blank line between two records.
Serialize(rs) ==
    IF rs = <<>> THEN <<>>
    ELSE IF Len(rs) = 1 THEN TextOf(RecordLines(rs[1]))
    ELSE TextOf(RecordLines(rs[1])) \o <<NL>> \o Serialize(Tail(rs))

\* --------------------------------------------------------- the environment
Hostname == "host"
LocalDirs == {"/mnt/w", "/mnt/ro"}
\* A directory that exists and cannot be written to.
ReadOnlyDirs == {"/mnt/ro"}
Remotes == {"root@h1:/b/", "root@h2:/b/"}

\* The header bytes a device can hold: a first byte that tells them apart,
\* then zeros.
Headers == {[i \in 1..HeaderLen |-> IF i = 1 THEN b ELSE 0] : b \in {1, 2}}

\* What `cryptsetup luksDump` prints for a header.
LuksDump(h) == [i \in 1..Len(h) |-> h[i] + 10]

\* What blkid prints on the host: up to two devices, each with its three fields.
BlkidRecords == {r \in Records : r.dev # Absent /\ r.uuid # Absent
                                  /\ r.type # Absent /\ r.extra = NoExtra}
BlkidOutputs ==
    {Serialize(<<>>)} \cup {Serialize(<<r>>) : r \in BlkidRecords}
        \cup {Serialize(<<r1, r2>>) :
                r1 \in {r \in BlkidRecords : r.dev = "/dev/sda1"},
                r2 \in {r \in BlkidRecords : r.dev = "/dev/sdb1"}}

SeqsUpTo(S, n) == UNION {[1..k -> S] : k \in 0..n}

\* ------------------------------------------------------------------- files
NoFiles == [n \in {} |-> 0]
Put(files, name, file) ==
    [n \in DOMAIN files \cup {name} |-> IF n = name THEN file ELSE files[n]]
Remove(files, name) == [n \in DOMAIN files \ {name} |-> files[n]]

\* fs::rename: the target is replaced in one step.
\* The old name stays.
Rename_Copy(files, from, to) == Put(files, to, files[from])
Rename(files, from, to) == Remove(Put(files, to, files[from]), from)

RECURSIVE Sum(_)
Sum(h) == IF h = <<>> THEN 0 ELSE Head(h) + Sum(Tail(h))

\* Lines 115-119: the first 8 hex digits of the SHA-256, as a many-to-one
\* function of the bytes.
HashMod == 4
ShortHash(header_data) == ToString(Sum(header_data) % HashMod)

\* Lines 93-94.
temp_file_path(uuid) == uuid \o ".img.tmp"
\* The dump is written straight under a canonical name.
temp_txt_path_Canonical(uuid) == "luks_header_backup.host." \o uuid \o ".0.txt"
temp_txt_path(uuid) == uuid \o ".txt.tmp"
\* Lines 122-127.
final_img_path(hostname, uuid, short_hash) ==
    "luks_header_backup." \o hostname \o "." \o uuid \o "." \o short_hash \o ".img"
\* The dump gets the name of the image.
final_txt_path_Img(hostname, uuid, short_hash) ==
    "luks_header_backup." \o hostname \o "." \o uuid \o "." \o short_hash \o ".img"
final_txt_path(hostname, uuid, short_hash) ==
    "luks_header_backup." \o hostname \o "." \o uuid \o "." \o short_hash \o ".txt"

\* Lines 197-198: the final name in a backup directory is the staged file's name.
dest_path(file_name) == file_name
\* The copy goes straight to the final name.
tmp_path_Final(file_name) == file_name

\* Lines 200 and 204.
tmp_path(file_name) == "." \o file_name \o ".tmp"

\* Only the images are sent.
files_to_copy_ImgOnly(as) == [i \in 1..Len(as) |-> as[i].img_path]

\* Line 214.
RECURSIVE files_to_copy(_)
files_to_copy(as) ==
    IF as = <<>> THEN <<>>
    ELSE <<Head(as).img_path, Head(as).txt_path>> \o files_to_copy(Tail(as))

\* Lines 223-228: the scp command line.
ScpArgs(files, remote) ==
    <<"-o", "StrictHostKeyChecking=yes", "-o", "BatchMode=yes">> \o files \o <<remote>>

\* ------------------------------------------------------------------- state
VARIABLES
    pc,               \* position in main / create_backup_artifacts
    result,           \* what main returned: "none" while running, "ok", "err"
    status,           \* the error main returned: its text and the destinations it names
    remote_paths,     \* Args.remote_paths
    backup_paths,     \* Args.backup_paths
    is_root,          \* getuid().is_root()
    temp_dir,         \* the TempDir: [exists, files], a file is [data, mode]
    dirs,             \* the backup directories: [exists, files], a file is its data
    device_uuid_map,  \* line 179
    pending,          \* devices the loop of line 187 has not visited yet
    cur,              \* locals of the running create_backup_artifacts call
    artifacts,        \* line 186
    li,               \* index of the backup path being processed (line 192)
    ai,               \* index of the artifact being copied (line 196)
    ext,              \* which file of the artifact is being copied: "img" or "txt"
    ri,               \* index of the remote being pushed to (line 220)
    all_success,      \* line 219
    build_outcome,    \* history: per discovered device "none", "built", "failed"
    local_outcome,    \* history: per backup path "unattempted", "started", "ok", "failed"
    scp_calls,        \* history: the scp commands run, [index, argv, ok]
    staged,           \* history: the data of each file renamed to a final name in temp_dir
    records,          \* the records whose export text is parsed (parser checks)
    parsed,           \* parse_blkid_output of that text
    seg_lines,        \* the lines of one segment (line checks)
    seg_map           \* the key/value map lines 49-54 build from them

mainVars == <<pc, result, status, remote_paths, backup_paths, is_root, temp_dir, dirs,
              device_uuid_map, pending, cur, artifacts, li, ai, ext, ri, all_success,
              build_outcome, local_outcome, scp_calls, staged>>
parseVars == <<records, parsed, seg_lines, seg_map>>
vars == <<mainVars, parseVars>>

NoStatus == [text |-> "", dests |-> {}]
NoCur == [device |-> "", uuid |-> "", header |-> <<>>, dump_output |-> <<>>,
          header_data |-> <<>>, short_hash |-> ""]

\* The directory is left behind.
Drop_Leak(td) == td

\* TempDir::drop: the directory and everything in it is removed.
Drop(td) == [exists |-> FALSE, files |-> NoFiles]

\* main returns: its locals are dropped, temp_dir among them (it is declared at
\* line 174; before that there is nothing to drop).
Return(r, text) ==
    /\ pc' = "done"
    /\ result' = r
    /\ status' = [text |-> text, dests |-> {}]
    /\ temp_dir' = Drop(temp_dir)

MainInit ==
    /\ pc = "start"
    /\ result = "none"
    /\ status = NoStatus
    /\ remote_paths \in SeqsUpTo(Remotes, MaxRemote)
    /\ backup_paths \in SeqsUpTo(LocalDirs, MaxLocal)
    /\ is_root \in BOOLEAN
    /\ temp_dir = [exists |-> FALSE, files |-> NoFiles]
    /\ dirs = [d \in LocalDirs |-> [exists |-> d \in ReadOnlyDirs, files |-> NoFiles]]
    /\ device_uuid_map = EmptyMap
    /\ pending = {}
    /\ cur = NoCur
    /\ artifacts = <<>>
    /\ li = 1
    /\ ai = 1
    /\ ext = "img"
    /\ ri = 1
    /\ all_success = TRUE
    /\ build_outcome = EmptyMap
    /\ local_outcome = [i \in 1..Len(backup_paths) |-> "unattempted"]
    /\ scp_calls = <<>>
    /\ staged = NoFiles

LineIdle == seg_lines = <<>> /\ seg_map = EmptyMap

ParseIdle == records = <<>> /\ parsed = EmptyMap /\ LineIdle

Init == MainInit /\ ParseIdle

\* ---------------------------------------------------------- main: preamble
\* Lines 159-161.
CheckArgs ==
    /\ pc = "start"
    /\ IF remote_paths = <<>> /\ backup_paths = <<>>
       THEN Return("err", "At least one of --remote-path or --backup-path must be provided.")
       ELSE /\ pc' = "check_root"
            /\ UNCHANGED <<result, status, temp_dir>>
    /\ UNCHANGED <<remote_paths, backup_paths, is_root, dirs, device_uuid_map, pending,
                   cur, artifacts, li, ai, ext, ri, all_success, build_outcome,
                   local_outcome, scp_calls, staged, parseVars>>

\* The privilege check is left out.
CheckRoot_Skip ==
    /\ pc = "check_root"
    /\ pc' = "hostname"
    /\ UNCHANGED <<result, status, temp_dir>>
    /\ UNCHANGED <<remote_paths, backup_paths, is_root, dirs, device_uuid_map, pending,
                   cur, artifacts, li, ai, ext, ri, all_success, build_outcome,
                   local_outcome, scp_calls, staged, parseVars>>

\* Lines 163-165.
CheckRoot ==
    /\ pc = "check_root"
    /\ IF ~is_root
       THEN Return("err", "This program must be run as root")
       ELSE /\ pc' = "hostname"
            /\ UNCHANGED <<result, status, temp_dir>>
    /\ UNCHANGED <<remote_paths, backup_paths, is_root, dirs, device_uuid_map, pending,
                   cur, artifacts, li, ai, ext, ri, all_success, build_outcome,
                   local_outcome, scp_calls, staged, parseVars>>

\* Lines 167-172: gethostname or the conversion to UTF-8 may fail.
GetHostname ==
    /\ pc = "hostname"
    /\ \/ /\ pc' = "tempdir"
          /\ UNCHANGED <<result, status, temp_dir>>
       \/ Return("err", "Failed to get hostname")
    /\ UNCHANGED <<remote_paths, backup_paths, is_root, dirs, device_uuid_map, pending,
                   cur, artifacts, li, ai, ext, ri, all_success, build_outcome,
                   local_outcome, scp_calls, staged, parseVars>>

\* Lines 174-177: tempdir() may fail; set_permissions may fail after the
\* directory was created, and the return then drops it.
CreateTempDir ==
    /\ pc = "tempdir"
    /\ \/ /\ temp_dir' = [exists |-> TRUE, files |-> NoFiles]
          /\ pc' = "discover"
          /\ UNCHANGED <<result, status>>
       \/ Return("err", "Failed to create temp dir")
       \/ Return("err", "Failed to set temp dir permissions")
    /\ UNCHANGED <<remote_paths, backup_paths, is_root, dirs, device_uuid_map, pending,
                   cur, artifacts, li, ai, ext, ri, all_success, build_outcome,
                   local_outcome, scp_calls, staged, parseVars>>

\* Lines 179 and 68-76: blkid may fail to run or print undecodable bytes;
\* otherwise its output is parsed.
Discover ==
    /\ pc = "discover"
    /\ \/ \E output_str \in BlkidOutputs :
            /\ device_uuid_map' = parse_blkid_output(output_str)
            /\ pending' = DOMAIN device_uuid_map'
            /\ build_outcome' = [d \in DOMAIN device_uuid_map' |-> "none"]
            /\ pc' = "check_empty"
            /\ UNCHANGED <<result, status, temp_dir>>
       \/ /\ Return("err", "Find LUKS devices")
          /\ UNCHANGED <<device_uuid_map, pending, build_outcome>>
    /\ UNCHANGED <<remote_paths, backup_paths, is_root, dirs, cur, artifacts, li, ai,
                   ext, ri, all_success, local_outcome, scp_calls, staged, parseVars>>

\* The empty map is let through to the build loop.
CheckEmpty_NoBail ==
    /\ pc = "check_empty"
    /\ pc' = "build_loop"
    /\ UNCHANGED <<result, status, temp_dir>>
    /\ UNCHANGED <<remote_paths, backup_paths, is_root, dirs, device_uuid_map, pending,
                   cur, artifacts, li, ai, ext, ri, all_success, build_outcome,
                   local_outcome, scp_calls, staged, parseVars>>

\* Lines 180-184.
CheckEmpty ==
    /\ pc = "check_empty"
    /\ IF device_uuid_map = EmptyMap
       THEN Return("err", "Expected to find at least one LUKS device to backup header.")
       ELSE /\ pc' = "build_loop"
            /\ UNCHANGED <<result, status, temp_dir>>
    /\ UNCHANGED <<remote_paths, backup_paths, is_root, dirs, device_uuid_map, pending,
                   cur, artifacts, li, ai, ext, ri, all_success, build_outcome,
                   local_outcome, scp_calls, staged, parseVars>>

\* ------------------------------------------------ create_backup_artifacts
\* Line 187: HashMap iteration visits the entries in an arbitrary order.  The
\* call of line 188 starts; the device's header is whatever the disk holds.
BuildLoop ==
    /\ pc = "build_loop"
    /\ \/ /\ pending = {}
          /\ pc' = "local"
          /\ UNCHANGED <<pending, cur>>
       \/ \E device \in pending, header \in Headers :
            /\ pending' = pending \ {device}
            /\ cur' = [NoCur EXCEPT !.device = device,
                                    !.uuid = device_uuid_map[device],
                                    !.header = header]
            /\ pc' = "cba_backup"
    /\ UNCHANGED <<result, status, remote_paths, backup_paths, is_root, temp_dir, dirs,
                   device_uuid_map, artifacts, li, ai, ext, ri, all_success,
                   build_outcome, local_outcome, scp_calls, staged, parseVars>>

\* The failed device is skipped and the loop goes on.
BuildErr_Skip(text) ==
    /\ build_outcome' = [build_outcome EXCEPT ![cur.device] = "failed"]
    /\ pc' = "build_loop"
    /\ UNCHANGED <<result, status, temp_dir>>

\* A `?` inside create_backup_artifacts followed by the `?` of line 188: the
\* error leaves the function and then main.
BuildErr(text) ==
    /\ build_outcome' = [build_outcome EXCEPT ![cur.device] = "failed"]
    /\ Return("err", text)

\* One more byte of `src` reaches the file `name`.
AppendByte(files, name, src) ==
    Put(files, name, [files[name] EXCEPT !.data = Append(@, src[Len(@) + 1])])

buildFrame == <<remote_paths, backup_paths, is_root, dirs, device_uuid_map, pending,
                li, ai, ext, ri, all_success, local_outcome, scp_calls, parseVars>>

\* Lines 96-101: cryptsetup luksHeaderBackup creates the backup file (it
\* refuses an existing one) ...
HeaderBackupStart ==
    /\ pc = "cba_backup"
    /\ \/ /\ temp_file_path(cur.uuid) \notin DOMAIN temp_dir.files
          /\ temp_dir' = [temp_dir EXCEPT !.files =
                            Put(@, temp_file_path(cur.uuid), [data |-> <<>>, mode |-> "0400"])]
          /\ pc' = "cba_backup_w"
          /\ UNCHANGED <<result, status, build_outcome>>
       \/ BuildErr("Backup LUKS header")
    /\ UNCHANGED <<cur, artifacts, staged, buildFrame>>

\* ... and writes the header into it, or fails on the way.
HeaderBackupWrite ==
    /\ pc = "cba_backup_w"
    /\ \/ /\ temp_dir' = [temp_dir EXCEPT !.files =
                            AppendByte(@, temp_file_path(cur.uuid), cur.header)]
          /\ pc' = IF Len(temp_dir'.files[temp_file_path(cur.uuid)].data) = Len(cur.header)
                   THEN "cba_dump" ELSE "cba_backup_w"
          /\ UNCHANGED <<result, status, build_outcome>>
       \/ BuildErr("Backup LUKS header")
    /\ UNCHANGED <<cur, artifacts, staged, buildFrame>>

\* Lines 103-106: cryptsetup luksDump on the temp file.
HeaderDump ==
    /\ pc = "cba_dump"
    /\ \/ /\ cur' = [cur EXCEPT !.dump_output =
                        LuksDump(temp_dir.files[temp_file_path(cur.uuid)].data)]
          /\ pc' = "cba_write"
          /\ UNCHANGED <<result, status, temp_dir, build_outcome>>
       \/ /\ BuildErr("Dump LUKS header")
          /\ UNCHANGED cur
    /\ UNCHANGED <<artifacts, staged, buildFrame>>

\* Lines 107-108: fs::write creates or truncates the file ...
WriteDumpStart ==
    /\ pc = "cba_write"
    /\ \/ /\ temp_dir' = [temp_dir EXCEPT !.files =
                            Put(@, temp_txt_path(cur.uuid), [data |-> <<>>, mode |-> "0644"])]
          /\ pc' = "cba_write_w"
          /\ UNCHANGED <<result, status, build_outcome>>
       \/ BuildErr("Failed to write luksDump output to file")
    /\ UNCHANGED <<cur, artifacts, staged, buildFrame>>

\* ... and writes the bytes.
WriteDumpBytes ==
    /\ pc = "cba_write_w"
    /\ \/ /\ temp_dir' = [temp_dir EXCEPT !.files =
                            AppendByte(@, temp_txt_path(cur.uuid), cur.dump_output)]
          /\ pc' = IF Len(temp_dir'.files[temp_txt_path(cur.uuid)].data) = Len(cur.dump_output)
                   THEN "cba_read" ELSE "cba_write_w"
          /\ UNCHANGED <<result, status, build_outcome>>
       \/ BuildErr("Failed to write luksDump output to file")
    /\ UNCHANGED <<cur, artifacts, staged, buildFrame>>

\* Lines 110-127: the temp file is read back and hashed.
ReadAndHash ==
    /\ pc = "cba_read"
    /\ \/ LET header_data == temp_dir.files[temp_file_path(cur.uuid)].data
          IN /\ cur' = [cur EXCEPT !.header_data = header_data,
                                   !.short_hash = ShortHash(header_data)]
             /\ pc' = "cba_rename_img"
             /\ UNCHANGED <<result, status, temp_dir, build_outcome>>
       \/ /\ BuildErr("Failed to read temp file")
          /\ UNCHANGED cur
    /\ UNCHANGED <<artifacts, staged, buildFrame>>

\* Line 129.
RenameImg ==
    /\ pc = "cba_rename_img"
    /\ \/ /\ temp_dir' = [temp_dir EXCEPT !.files =
                            Rename(@, temp_file_path(cur.uuid),
                                   final_img_path(Hostname, cur.uuid, cur.short_hash))]
          /\ pc' = "cba_rename_txt"
          /\ staged' = Put(staged, final_img_path(Hostname, cur.uuid, cur.short_hash),
                            temp_dir.files[temp_file_path(cur.uuid)].data)
          /\ UNCHANGED <<result, status, build_outcome>>
       \/ /\ BuildErr("Failed to rename temp img file")
          /\ UNCHANGED staged
    /\ UNCHANGED <<cur, artifacts, buildFrame>>

\* Line 130.
RenameTxt ==
    /\ pc = "cba_rename_txt"
    /\ \/ /\ temp_dir' = [temp_dir EXCEPT !.files =
                            Rename(@, temp_txt_path(cur.uuid),
                                   final_txt_path(Hostname, cur.uuid, cur.short_hash))]
          /\ pc' = "cba_chmod_img"
          /\ staged' = Put(staged, final_txt_path(Hostname, cur.uuid, cur.short_hash),
                            temp_dir.files[temp_txt_path(cur.uuid)].data)
          /\ UNCHANGED <<result, status, build_outcome>>
       \/ /\ BuildErr("Failed to rename temp txt file")
          /\ UNCHANGED staged
    /\ UNCHANGED <<cur, artifacts, buildFrame>>

\* The permissions are left as they were.
SetMode_Noop(files, name, mode) == files
SetMode(files, name, mode) == Put(files, name, [files[name] EXCEPT !.mode = mode])

\* Lines 132-133.
ChmodImg ==
    /\ pc = "cba_chmod_img"
    /\ \/ /\ temp_dir' = [temp_dir EXCEPT !.files =
                            SetMode(@, final_img_path(Hostname, cur.uuid, cur.short_hash), "0600")]
          /\ pc' = "cba_chmod_txt"
          /\ UNCHANGED <<result, status, build_outcome>>
       \/ BuildErr("Set img permissions")
    /\ UNCHANGED <<cur, artifacts, staged, buildFrame>>

\* Lines 134-145 and the push of line 188.
ChmodTxt ==
    /\ pc = "cba_chmod_txt"
    /\ \/ /\ temp_dir' = [temp_dir EXCEPT !.files =
                            SetMode(@, final_txt_path(Hostname, cur.uuid, cur.short_hash), "0600")]
          /\ artifacts' = Append(artifacts,
                [uuid |-> cur.uuid,
                 img_path |-> final_img_path(Hostname, cur.uuid, cur.short_hash),
                 txt_path |-> final_txt_path(Hostname, cur.uuid, cur.short_hash),
                 short_hash |-> cur.short_hash])
          /\ build_outcome' = [build_outcome EXCEPT ![cur.device] = "built"]
          /\ pc' = "build_loop"
          /\ UNCHANGED <<result, status>>
       \/ /\ BuildErr("Set txt permissions")
          /\ UNCHANGED artifacts
    /\ UNCHANGED <<cur, staged, buildFrame>>

\* ------------------------------------------------- main: local replication
\* A `?` of lines 194-206: the error leaves main.
LocalErr(text) ==
    /\ local_outcome' = [local_outcome EXCEPT ![li] = "failed"]
    /\ Return("err", text)

localFrame == <<remote_paths, backup_paths, is_root, device_uuid_map, pending, cur,
                artifacts, ri, all_success, build_outcome, scp_calls, staged, parseVars>>

\* The staged file being copied, and its data.
SrcName == IF ext = "img" THEN artifacts[ai].img_path ELSE artifacts[ai].txt_path
SrcData == temp_dir.files[SrcName].data

\* Lines 191-193: the next backup path, or on to the remotes.
LocalLoop ==
    /\ pc = "local"
    /\ \/ /\ li <= Len(backup_paths)
          /\ local_outcome' = [local_outcome EXCEPT ![li] = "started"]
          /\ pc' = "create_dir"
       \/ /\ li > Len(backup_paths)
          /\ pc' = "remote"
          /\ UNCHANGED local_outcome
    /\ UNCHANGED <<result, status, temp_dir, dirs, li, ai, ext, localFrame>>

\* Line 194: create_dir_all succeeds on an existing directory; a missing one
\* is created, or cannot be.
CreateDirAll ==
    /\ pc = "create_dir"
    /\ \/ /\ dirs' = [dirs EXCEPT ![backup_paths[li]].exists = TRUE]
          /\ ai' = 1
          /\ pc' = "art_loop"
          /\ UNCHANGED <<result, status, temp_dir, local_outcome>>
       \/ /\ ~dirs[backup_paths[li]].exists
          /\ LocalErr("Failed to create backup directory")
          /\ UNCHANGED <<dirs, ai>>
    /\ UNCHANGED <<li, ext, localFrame>>

\* Line 196: the next artifact, or this backup path is done.
ArtifactLoop ==
    /\ pc = "art_loop"
    /\ \/ /\ ai <= Len(artifacts)
          /\ ext' = "img"
          /\ pc' = "copy"
          /\ UNCHANGED <<li, local_outcome>>
       \/ /\ ai > Len(artifacts)
          /\ local_outcome' = [local_outcome EXCEPT ![li] = "ok"]
          /\ li' = li + 1
          /\ pc' = "local"
          /\ UNCHANGED ext
    /\ UNCHANGED <<result, status, temp_dir, dirs, ai, localFrame>>

\* Lines 201 and 205: fs::copy opens the temp name in the backup directory,
\* creating or truncating it; a read-only directory refuses.
CopyOpen ==
    /\ pc = "copy"
    /\ \/ /\ backup_paths[li] \notin ReadOnlyDirs
          /\ dirs' = [dirs EXCEPT ![backup_paths[li]].files = Put(@, tmp_path(SrcName), <<>>)]
          /\ pc' = "copy_w"
          /\ UNCHANGED <<result, status, temp_dir, local_outcome>>
       \/ /\ LocalErr("fs::copy")
          /\ UNCHANGED dirs
    /\ UNCHANGED <<li, ai, ext, localFrame>>

\* fs::copy writes the bytes; an error on the way leaves what was written.
CopyWrite ==
    /\ pc = "copy_w"
    /\ \/ /\ dirs' = [dirs EXCEPT ![backup_paths[li]].files =
                        Put(@, tmp_path(SrcName), Append(@[tmp_path(SrcName)],
                                SrcData[Len(@[tmp_path(SrcName)]) + 1]))]
          /\ pc' = IF Len(dirs'[backup_paths[li]].files[tmp_path(SrcName)]) = Len(SrcData)
                   THEN "rename" ELSE "copy_w"
          /\ UNCHANGED <<result, status, temp_dir, local_outcome>>
       \/ /\ LocalErr("fs::copy")
          /\ UNCHANGED dirs
    /\ UNCHANGED <<li, ai, ext, localFrame>>

\* Lines 202 and 206-208: the temp name is renamed to the final name.
RenameDest ==
    /\ pc = "rename"
    /\ \/ /\ dirs' = [dirs EXCEPT ![backup_paths[li]].files =
                        Rename(@, tmp_path(SrcName), dest_path(SrcName))]
          /\ IF ext = "img"
             THEN ext' = "txt" /\ pc' = "copy" /\ UNCHANGED ai
             ELSE ai' = ai + 1 /\ pc' = "art_loop" /\ UNCHANGED ext
          /\ UNCHANGED <<result, status, temp_dir, local_outcome>>
       \/ /\ LocalErr("fs::rename")
          /\ UNCHANGED <<dirs, ai, ext>>
    /\ UNCHANGED <<li, localFrame>>

\* ------------------------------------------------ main: remote replication
remoteFrame == <<remote_paths, backup_paths, is_root, dirs, device_uuid_map, pending,
                 cur, artifacts, li, ai, ext, build_outcome, local_outcome, staged, parseVars>>

\* Lines 213-219.
RemoteStart ==
    /\ pc = "remote"
    /\ IF remote_paths = <<>> \/ files_to_copy(artifacts) = <<>>
       THEN pc' = "finish" /\ UNCHANGED <<ri, all_success>>
       ELSE pc' = "scp" /\ ri' = 1 /\ all_success' = TRUE
    /\ UNCHANGED <<result, status, temp_dir, scp_calls, remoteFrame>>

\* The failure is logged and the flag is left alone.
AfterScp_Ignore(flag, ok) == flag

\* Lines 230-235: a failed scp clears the flag and the loop goes on.
AfterScp(flag, ok) == flag /\ ok

\* The loop stops at the first failed scp.
NextRemote_Break(i, ok) == IF ok THEN i + 1 ELSE Len(remote_paths) + 1

\* Line 220: the loop goes on to the next remote whatever the outcome.
NextRemote(i, ok) == i + 1

\* Lines 220-236: one scp run per remote.
Scp ==
    /\ pc = "scp"
    /\ ri <= Len(remote_paths)
    /\ \E ok \in BOOLEAN :
        /\ scp_calls' = Append(scp_calls,
              [index |-> ri, argv |-> ScpArgs(files_to_copy(artifacts), remote_paths[ri]),
               ok |-> ok])
        /\ all_success' = AfterScp(all_success, ok)
        /\ ri' = NextRemote(ri, ok)
    /\ UNCHANGED <<pc, result, status, temp_dir, remoteFrame>>

\* Lines 238-240.
RemoteEnd ==
    /\ pc = "scp"
    /\ ri > Len(remote_paths)
    /\ IF ~all_success
       THEN Return("err", "Some remote copies failed")
       ELSE /\ pc' = "finish"
            /\ UNCHANGED <<result, status, temp_dir>>
    /\ UNCHANGED <<ri, all_success, scp_calls, remoteFrame>>

\* Lines 244-245.
Finish ==
    /\ pc = "finish"
    /\ Return("ok", "")
    /\ UNCHANGED <<ri, all_success, scp_calls, remoteFrame>>

MainNext ==
    \/ CheckArgs \/ CheckRoot \/ GetHostname \/ CreateTempDir \/ Discover \/ CheckEmpty
    \/ BuildLoop \/ HeaderBackupStart \/ HeaderBackupWrite \/ HeaderDump
    \/ WriteDumpStart \/ WriteDumpBytes \/ ReadAndHash \/ RenameImg \/ RenameTxt
    \/ ChmodImg \/ ChmodTxt
    \/ LocalLoop \/ CreateDirAll \/ ArtifactLoop \/ CopyOpen \/ CopyWrite \/ RenameDest
    \/ RemoteStart \/ Scp \/ RemoteEnd \/ Finish

Next == MainNext

Spec == Init /\ [][Next]_vars

\* ------------------------------------------------------- the parser alone
\* A run that never starts: only the parser is exercised.
MainIdle ==
    /\ MainInit
    /\ remote_paths = <<>>
    /\ backup_paths = <<>>
    /\ ~is_root

ParseInit ==
    /\ MainIdle
    /\ records = <<>>
    /\ parsed = parse_blkid_output(Serialize(records))
    /\ LineIdle

\* One more record is printed, and the whole text is parsed.
ParseExport ==
    /\ Len(records) < MaxRecords
    /\ \E r \in Records :
        /\ records' = Append(records, r)
        /\ parsed' = parse_blkid_output(Serialize(records'))
    /\ UNCHANGED <<mainVars, seg_lines, seg_map>>

ParseNext == ParseExport

ParseSpec == ParseInit /\ [][ParseNext]_vars

\* ------------------------------------------------- the lines of one segment
\* The lines tried: every non-empty run of at most MaxLineToks tokens, each a
\* word or an '='.
LineTokens == {"K", EQ}
LineInputs == SeqsUpTo(LineTokens, MaxLineToks) \ {<<>>}

LineInit ==
    /\ MainIdle
    /\ records = <<>>
    /\ parsed = EmptyMap
    /\ seg_lines = <<>>
    /\ seg_map = SegmentMap(Lines(TextOf(seg_lines)), EmptyMap)

\* One more line is added to the segment, and lines 49-54 run on its text.
ParseLine ==
    /\ Len(seg_lines) < MaxSegLines
    /\ \E line \in LineInputs :
        /\ seg_lines' = Append(seg_lines, line)
        /\ seg_map' = SegmentMap(Lines(TextOf(seg_lines')), EmptyMap)
    /\ UNCHANGED <<mainVars, records, parsed>>

LineNext == ParseLine

LineSpec == LineInit /\ [][LineNext]_vars

\* ===================================================================== claims
\* The final names of the built artifacts.
ArtifactFiles ==
    {artifacts[k].img_path : k \in 1..Len(artifacts)}
        \cup {artifacts[k].txt_path : k \in 1..Len(artifacts)}

\* The backup directory holds a complete copy of every artifact file.
HoldsAll(d) ==
    \A n \in ArtifactFiles :
        n \in DOMAIN dirs[d].files /\ n \in DOMAIN staged /\ dirs[d].files[n] = staged[n]

\* A replication action was performed: a backup path was started or scp was run.
ReplStarted ==
    \/ \E j \in DOMAIN local_outcome : local_outcome[j] # "unattempted"
    \/ scp_calls # <<>>

\* The backup directories as they were before the run.
DirsUntouched ==
    dirs = [d \in LocalDirs |-> [exists |-> d \in ReadOnlyDirs, files |-> NoFiles]]

AllBuilt ==
    /\ DOMAIN build_outcome = DOMAIN device_uuid_map
    /\ \A d \in DOMAIN device_uuid_map : build_outcome[d] = "built"
    /\ Len(artifacts) = Cardinality(DOMAIN device_uuid_map)

AllLocalOk ==
    \A j \in 1..Len(backup_paths) : local_outcome[j] = "ok" /\ HoldsAll(backup_paths[j])

AllRemoteOk ==
    \A i \in 1..Len(remote_paths) :
        \E k \in 1..Len(scp_calls) : scp_calls[k].index = i /\ scp_calls[k].ok

FailedRemotes == {k \in 1..Len(scp_calls) : ~scp_calls[k].ok}

\* A copy or a rename into a backup directory failed.
CopyOrRenameFailed ==
    /\ pc = "done"
    /\ status.text \in {"fs::copy", "fs::rename"}
    /\ \E j \in DOMAIN local_outcome : local_outcome[j] = "failed"

\* C1: after a copy or rename has failed at one backup path, the run has failed
\* and every backup path was processed to its end; and when the failures were at
\* read-only directories only, every writable backup path holds the complete
\* copy of every artifact file.
C1_LocalIsolation ==
    CopyOrRenameFailed =>
        /\ result = "err"
        /\ \A j \in DOMAIN local_outcome : local_outcome[j] \in {"ok", "failed"}
        /\ (\A j \in DOMAIN local_outcome :
                local_outcome[j] = "failed" => backup_paths[j] \in ReadOnlyDirs)
            => \A j \in DOMAIN local_outcome :
                    backup_paths[j] \notin ReadOnlyDirs => HoldsAll(backup_paths[j])

\* C2: when the run has ended, it returned success only if an artifact was built
\* for every discovered device and every local and remote destination succeeded;
\* otherwise it returned an error.
C2_ExitContract ==
    pc = "done" =>
        /\ result \in {"ok", "err"}
        /\ result = "ok" =>
            /\ device_uuid_map # EmptyMap
            /\ AllBuilt
            /\ AllLocalOk
            /\ AllRemoteOk

C2_Witness ==
    /\ pc = "done"
    /\ result = "ok"
    /\ Len(backup_paths) = 2
    /\ Len(remote_paths) = 2
    /\ Len(artifacts) = 2

\* C3: in every state, a file under a final name in a backup directory has the
\* complete data of the staged file of that name; any other file there is under
\* the temporary name of an artifact file.
C3_DestinationAtomicity ==
    \A d \in LocalDirs : \A n \in DOMAIN dirs[d].files :
        IF n \in ArtifactFiles
        THEN n \in DOMAIN staged /\ dirs[d].files[n] = staged[n]
        ELSE \E f \in ArtifactFiles : n = tmp_path(f)

\* A failed copy left half of the .txt under its temporary name, next to the
\* complete .img under its final name.
C3_Witness ==
    /\ pc = "done"
    /\ result = "err"
    /\ \E d \in LocalDirs, k \in 1..Len(artifacts) :
        /\ artifacts[k].img_path \in DOMAIN dirs[d].files
        /\ tmp_path(artifacts[k].txt_path) \in DOMAIN dirs[d].files
        /\ Len(dirs[d].files[tmp_path(artifacts[k].txt_path)]) = 1
        /\ Len(staged[artifacts[k].txt_path]) > 1

\* C4: once the build of a device has failed, the run has ended with an error
\* and no replication action was performed.
C4_FailFastBuild ==
    (\E d \in DOMAIN build_outcome : build_outcome[d] = "failed") =>
        /\ pc = "done"
        /\ result = "err"
        /\ ~ReplStarted
        /\ DirsUntouched

\* One device was built before the build of the other failed.
C4_Witness ==
    /\ \E d \in DOMAIN build_outcome : build_outcome[d] = "failed"
    /\ \E d \in DOMAIN build_outcome : build_outcome[d] = "built"
    /\ backup_paths # <<>>
    /\ remote_paths # <<>>

EmptyDiscovery == pc = "check_empty" /\ device_uuid_map = EmptyMap

\* C5: when discovery has returned no device, nothing was built or replicated,
\* and the next step ends the run with an error, still with nothing built or
\* replicated.
C5_FailFastEmpty ==
    [][EmptyDiscovery =>
        /\ artifacts = <<>> /\ temp_dir.files = NoFiles /\ ~ReplStarted /\ DirsUntouched
        /\ pc' = "done" /\ result' = "err"
        /\ artifacts' = <<>> /\ ~ReplStarted' /\ DirsUntouched']_vars

C5_Witness ==
    /\ pc = "done"
    /\ status.text = "Expected to find at least one LUKS device to backup header."
    /\ backup_paths # <<>>
    /\ remote_paths # <<>>

\* The value of a key in a record: that of the last `key=value` line with the key.
FieldOf(r, key) ==
    LET ls == RecordLines(r)
        at == {i \in 1..Len(ls) : Len(ls[i]) = 3 /\ ls[i][1] = key /\ ls[i][2] = EQ}
    IN IF at = {} THEN Absent ELSE ls[CHOOSE i \in at : \A j \in at : j <= i][3]

\* The record is a LUKS record that carries both fields.
Qualifies(r) ==
    /\ FieldOf(r, "TYPE") = "crypto_LUKS"
    /\ FieldOf(r, "DEVNAME") # Absent
    /\ FieldOf(r, "UUID") # Absent

QualifyingAt == {i \in 1..Len(records) : Qualifies(records[i])}

ParsedPairs == {<<d, parsed[d]>> : d \in DOMAIN parsed}

\* C6 as stated: the mapping holds exactly the DEVNAME -> UUID pairs of the
\* LUKS records that carry both fields.
C6_ExactPairs ==
    ParsedPairs = {<<FieldOf(records[i], "DEVNAME"), FieldOf(records[i], "UUID")>> :
                        i \in QualifyingAt}

\* C6 amended: the mapping's keys are exactly the DEVNAMEs of the LUKS records
\* that carry both fields, and each maps to the UUID of the last such record
\* with that DEVNAME; no other record contributes, and no records give the
\* empty mapping.
C6_LastRecordWins ==
    /\ DOMAIN parsed = {FieldOf(records[i], "DEVNAME") : i \in QualifyingAt}
    /\ \A d \in DOMAIN parsed :
        LET at == {i \in QualifyingAt : FieldOf(records[i], "DEVNAME") = d}
        IN parsed[d] = FieldOf(records[CHOOSE i \in at : \A j \in at : j <= i], "UUID")
    /\ records = <<>> => parsed = EmptyMap

\* Two LUKS records name the same device with different UUIDs, and the mapping
\* holds the UUID of the second.
C6_Witness ==
    /\ QualifyingAt = {1, 2}
    /\ FieldOf(records[1], "DEVNAME") = FieldOf(records[2], "DEVNAME")
    /\ FieldOf(records[1], "UUID") # FieldOf(records[2], "UUID")
    /\ parsed[FieldOf(records[2], "DEVNAME")] = FieldOf(records[2], "UUID")
    /\ Cardinality(DOMAIN parsed) = 1

\* C7: when a run that started replicating has ended, every backup path was
\* processed to its end and scp was run for every remote.
C7_EveryDestinationAttempted ==
    (pc = "done" /\ ReplStarted) =>
        /\ \A j \in DOMAIN local_outcome : local_outcome[j] \in {"ok", "failed"}
        /\ \A i \in 1..Len(remote_paths) :
            \E k \in 1..Len(scp_calls) : scp_calls[k].index = i

\* Everything before the remote loop succeeded and there are remotes.
RemotesReached ==
    /\ pc = "done"
    /\ device_uuid_map # EmptyMap
    /\ AllBuilt
    /\ \A j \in DOMAIN local_outcome : local_outcome[j] = "ok"
    /\ remote_paths # <<>>

\* C8: scp is run at most once per remote, in order, with that remote as its
\* target; when the run ends after reaching the remotes, scp was run exactly once
\* for every remote, and the run failed if and only if some scp failed.
C8_RemoteIsolation ==
    /\ \A k \in 1..Len(scp_calls) :
        /\ scp_calls[k].index = k
        /\ k <= Len(remote_paths)
        /\ scp_calls[k].argv[Len(scp_calls[k].argv)] = remote_paths[k]
    /\ RemotesReached =>
        /\ Len(scp_calls) = Len(remote_paths)
        /\ result = "err" <=> FailedRemotes # {}

\* The first of two remotes failed and the second was still pushed to.
C8_Witness ==
    /\ RemotesReached
    /\ Len(scp_calls) = 2
    /\ ~scp_calls[1].ok
    /\ scp_calls[2].ok
    /\ result = "err"

\* C9: when the run has ended, the temporary directory and its files are gone.
C9_StagingCleanup ==
    pc = "done" => ~temp_dir.exists /\ temp_dir.files = NoFiles

\* The run failed at a backup directory after artifacts were staged.
C9_Witness ==
    /\ pc = "done"
    /\ result = "err"
    /\ staged # NoFiles
    /\ \E j \in DOMAIN local_outcome : local_outcome[j] = "failed"

\* The destinations that failed.
FailedDests ==
    {backup_paths[j] : j \in {i \in DOMAIN local_outcome : local_outcome[i] = "failed"}}
        \cup {remote_paths[scp_calls[k].index] : k \in FailedRemotes}

\* C10: when replication has failed, the error the run ends with names exactly
\* the destinations that failed.
C10_FailureReport ==
    (pc = "done" /\ result = "err" /\ ReplStarted) => status.dests = FailedDests

RootError == "This program must be run as root"
ArgsError == "At least one of --remote-path or --backup-path must be provided."

\* Nothing beyond the two checks of the preamble has happened.
OnlyChecksRan ==
    /\ pc \in {"start", "check_root", "done"}
    /\ ~temp_dir.exists
    /\ device_uuid_map = EmptyMap
    /\ artifacts = <<>>
    /\ staged = NoFiles
    /\ ~ReplStarted
    /\ DirsUntouched

\* C11 as stated: a run by a caller who is not root ends with the privilege
\* error whatever the configuration, and nothing else has happened.
C11_PrivilegeFirst ==
    ~is_root =>
        /\ OnlyChecksRan
        /\ pc = "done" => result = "err" /\ status.text = RootError

\* C11 amended: the privilege check comes right after the check that a
\* destination is configured and before everything else: a run by a caller who
\* is not root ends with the privilege error when a destination is configured and
\* with the missing-destination error when none is, and nothing else has happened.
C11_PrivilegeAfterArgs ==
    ~is_root =>
        /\ OnlyChecksRan
        /\ pc = "done" =>
            /\ result = "err"
            /\ status.text = IF remote_paths = <<>> /\ backup_paths = <<>>
                             THEN ArgsError ELSE RootError

C11_Witness ==
    /\ ~is_root
    /\ pc = "done"
    /\ status.text = RootError
    /\ backup_paths # <<>>
    /\ remote_paths # <<>>

HashValues == {ToString(h) : h \in 0..(HashMod - 1)}
TempNames == {temp_file_path(u) : u \in Uuids} \cup {temp_txt_path(u) : u \in Uuids}
CanonicalImgNames == {final_img_path(Hostname, u, h) : u \in Uuids, h \in HashValues}
CanonicalTxtNames == {final_txt_path(Hostname, u, h) : u \in Uuids, h \in HashValues}
CanonicalNames == CanonicalImgNames \cup CanonicalTxtNames

\* The file `name` of the staging directory holds a whole header, or a whole
\* dump of one, and its name carries that header's hash.
FullyWritten(name) ==
    LET data == temp_dir.files[name].data
    IN \/ /\ data \in Headers
          /\ \E u \in Uuids : name = final_img_path(Hostname, u, ShortHash(data))
       \/ \E h \in Headers :
              /\ data = LuksDump(h)
              /\ \E u \in Uuids : name = final_txt_path(Hostname, u, ShortHash(h))

\* In this step a canonical name of the staging directory keeps its bytes, or
\* receives by the rename of lines 129-130 the bytes of the temp file that was
\* read and hashed.
CanonicalOnlyByRename ==
    \A name \in (DOMAIN temp_dir'.files) \cap CanonicalNames :
        \/ /\ name \in DOMAIN temp_dir.files
           /\ temp_dir'.files[name].data = temp_dir.files[name].data
        \/ /\ pc = "cba_rename_img"
           /\ name = final_img_path(Hostname, cur.uuid, cur.short_hash)
           /\ temp_file_path(cur.uuid) \notin DOMAIN temp_dir'.files
           /\ temp_dir'.files[name].data = temp_dir.files[temp_file_path(cur.uuid)].data
           /\ cur.short_hash = ShortHash(temp_dir'.files[name].data)
        \/ /\ pc = "cba_rename_txt"
           /\ name = final_txt_path(Hostname, cur.uuid, cur.short_hash)
           /\ temp_txt_path(cur.uuid) \notin DOMAIN temp_dir'.files
           /\ temp_dir'.files[name].data = temp_dir.files[temp_txt_path(cur.uuid)].data

\* C12: every file of the staging directory bears a temp name or a canonical
\* name; a file under a canonical name is fully written, and a canonical name
\* gets its bytes only by the rename of a temp file that was written and hashed.
C12_StagingAtomicity ==
    /\ [](/\ DOMAIN temp_dir.files \subseteq TempNames \cup CanonicalNames
          /\ \A name \in (DOMAIN temp_dir.files) \cap CanonicalNames : FullyWritten(name))
    /\ [][CanonicalOnlyByRename]_vars

\* A header is half written under its temp name while the staging directory
\* already holds the two canonical files of another device.
C12_Witness ==
    /\ pc = "cba_backup_w"
    /\ Len(temp_dir.files[temp_file_path(cur.uuid)].data) \in 1..(Len(cur.header) - 1)
    /\ Len(artifacts) = 1
    /\ {artifacts[1].img_path, artifacts[1].txt_path} \subseteq DOMAIN temp_dir.files

\* The positions inside create_backup_artifacts, in the order of its text.
CbaSteps == <<"cba_backup", "cba_backup_w", "cba_dump", "cba_write", "cba_write_w",
              "cba_read", "cba_rename_img", "cba_rename_txt", "cba_chmod_img",
              "cba_chmod_txt">>
InCba == \E i \in DOMAIN CbaSteps : CbaSteps[i] = pc
StepOf(p) == CHOOSE i \in DOMAIN CbaSteps : CbaSteps[i] = p
CurImg == final_img_path(Hostname, cur.uuid, cur.short_hash)
CurTxt == final_txt_path(Hostname, cur.uuid, cur.short_hash)

\* What the steps before the current one have left behind.
EarlierStepsDone ==
    LET step == StepOf(pc)
        files == temp_dir.files
    IN /\ step >= 3 /\ step <= 7 =>
            /\ temp_file_path(cur.uuid) \in DOMAIN files
            /\ files[temp_file_path(cur.uuid)].data = cur.header
       /\ step >= 4 => cur.dump_output = LuksDump(cur.header)
       /\ step >= 6 /\ step <= 8 =>
            /\ temp_txt_path(cur.uuid) \in DOMAIN files
            /\ files[temp_txt_path(cur.uuid)].data = cur.dump_output
       /\ step >= 7 => cur.header_data = cur.header /\ cur.short_hash = ShortHash(cur.header)
       /\ step >= 8 =>
            /\ temp_file_path(cur.uuid) \notin DOMAIN files
            /\ CurImg \in DOMAIN files /\ files[CurImg].data = cur.header
       /\ step >= 9 =>
            /\ temp_txt_path(cur.uuid) \notin DOMAIN files
            /\ CurTxt \in DOMAIN files /\ files[CurTxt].data = cur.dump_output
       /\ step >= 10 => files[CurImg].mode = "0600"

\* The artifact is returned: both final files are there with mode 0600.
ArtifactReturned ==
    /\ pc = "cba_chmod_txt" /\ pc' = "build_loop"
    /\ artifacts' = Append(artifacts, [uuid |-> cur.uuid, img_path |-> CurImg,
                                       txt_path |-> CurTxt, short_hash |-> cur.short_hash])
    /\ {CurImg, CurTxt} \subseteq DOMAIN temp_dir'.files
    /\ temp_dir'.files[CurImg].mode = "0600"
    /\ temp_dir'.files[CurTxt].mode = "0600"

\* One step of create_backup_artifacts: the same step goes on, the next one
\* starts, the function fails and the run ends with no artifact added, or the
\* last step returns the artifact.
CbaStep ==
    /\ InCba =>
        \/ pc' = pc /\ artifacts' = artifacts
        \/ StepOf(pc) < Len(CbaSteps) /\ pc' = CbaSteps[StepOf(pc) + 1] /\ artifacts' = artifacts
        \/ pc' = "done" /\ result' = "err" /\ artifacts' = artifacts
        \/ ArtifactReturned
    /\ artifacts' # artifacts => ArtifactReturned

\* C13: create_backup_artifacts takes its steps in the order header backup,
\* header dump, dump written, read back and hash, rename of the image, rename
\* of the dump, chmod of the image, chmod of the dump; a failing step ends the
\* run with no later step and no artifact; an artifact is returned only when
\* both final files exist under their canonical names with mode 0600.
C13_BuildStepOrder ==
    /\ [](InCba => EarlierStepsDone)
    /\ [][CbaStep]_vars

\* One device's artifact was returned, then the build of the next device
\* failed at the rename of its dump.
C13_Witness ==
    /\ pc = "done"
    /\ result = "err"
    /\ status.text = "Failed to rename temp txt file"
    /\ Len(artifacts) = 1
    /\ \E device \in DOMAIN build_outcome : build_outcome[device] = "built"

\* The scp command line `argv` names, after the two options, the image and the
\* dump of each artifact in turn and then `remote`, and nothing else.
TransferShape(argv, remote) ==
    /\ Len(argv) = 4 + 2 * Len(artifacts) + 1
    /\ argv[1] = "-o" /\ argv[2] = "StrictHostKeyChecking=yes"
    /\ argv[3] = "-o" /\ argv[4] = "BatchMode=yes"
    /\ \A j \in 1..Len(artifacts) :
        /\ argv[4 + 2 * j - 1] = artifacts[j].img_path
        /\ argv[4 + 2 * j] = artifacts[j].txt_path
        /\ {artifacts[j].img_path, artifacts[j].txt_path} \subseteq DOMAIN staged
    /\ argv[Len(argv)] = remote

\* C14: every scp call carries the two options, the .img and the .txt of every
\* built artifact, two files for each discovered device, and then the remote
\* as given; no remote gets a second call, and a run that reaches the remotes
\* has called scp once for each of them.
C14_TransferShape ==
    /\ \A k \in 1..Len(scp_calls) :
        /\ scp_calls[k].index = k
        /\ k <= Len(remote_paths)
        /\ TransferShape(scp_calls[k].argv, remote_paths[k])
        /\ Len(artifacts) = Cardinality(DOMAIN device_uuid_map)
        /\ \A device \in DOMAIN device_uuid_map :
              \E j \in 1..Len(artifacts) : artifacts[j].uuid = device_uuid_map[device]
    /\ RemotesReached => {scp_calls[k].index : k \in 1..Len(scp_calls)} = 1..Len(remote_paths)

\* Two devices and two remotes: both scp calls were made, each with four files.
C14_Witness ==
    /\ RemotesReached
    /\ Len(remote_paths) = 2
    /\ Len(scp_calls) = 2
    /\ Len(artifacts) = 2
    /\ Len(scp_calls[2].argv) = 9

\* The uuids of the model in ascending order.
UuidOrder == <<"1234", "8765">>
UuidRank(uuid) == CHOOSE i \in DOMAIN UuidOrder : UuidOrder[i] = uuid

\* The uuids the artifact builder has been invoked on so far, in order.
BuildOrder == [j \in 1..Len(artifacts) |-> artifacts[j].uuid] \o
              (IF InCba THEN <<cur.uuid>> ELSE <<>>)

\* C15: the artifact builder is invoked on the discovered devices in ascending
\* order of their uuids.
C15_AscendingUuidOrder ==
    \A i, j \in DOMAIN BuildOrder : i < j => UuidRank(BuildOrder[i]) <= UuidRank(BuildOrder[j])

EqCount(line) == Cardinality({i \in 1..Len(line) : line[i] = EQ})

\* The text of `line` before position i, and after it.
Before(line, i) == Concat(SubSeq(line, 1, i - 1))
After(line, i) == Concat(SubSeq(line, i + 1, Len(line)))

\* C16 as stated: the keys of the segment's map are those of the lines that
\* hold exactly one '=', and no other line contributes an entry.
C16_ExactlyOneEq ==
    DOMAIN seg_map =
        {Before(seg_lines[n], i) : <<n, i>> \in
            {p \in (1..Len(seg_lines)) \X (1..MaxLineToks) :
                /\ p[2] <= Len(seg_lines[p[1]])
                /\ seg_lines[p[1]][p[2]] = EQ
                /\ EqCount(seg_lines[p[1]]) = 1}}

\* Line n holds an '=' and its first one is at position i.
FirstEqAt(n, i) ==
    /\ n \in 1..Len(seg_lines)
    /\ i \in 1..Len(seg_lines[n])
    /\ seg_lines[n][i] = EQ
    /\ \A k \in 1..(i - 1) : seg_lines[n][k] # EQ

EntryLines == {p \in (1..Len(seg_lines)) \X (1..MaxLineToks) : FirstEqAt(p[1], p[2])}

\* C16 amended: a line yields an entry exactly when it holds at least one '=';
\* the key is the text before its first '=' and the value all the text after
\* it, further '=' included; of two lines with the same key the later one gives
\* the value; a line without '=' yields nothing.
C16_FirstEqSplits ==
    /\ DOMAIN seg_map = {Before(seg_lines[p[1]], p[2]) : p \in EntryLines}
    /\ \A p \in EntryLines :
        (\A q \in EntryLines :
            Before(seg_lines[q[1]], q[2]) = Before(seg_lines[p[1]], p[2]) => q[1] <= p[1])
        => seg_map[Before(seg_lines[p[1]], p[2])] = After(seg_lines[p[1]], p[2])

\* A line without '=' and a line with two of them: one entry, whose value
\* holds the second '='.
C16_Witness ==
    /\ seg_lines = << <<"K">>, <<"K", EQ, EQ>> >>
    /\ DOMAIN seg_map = {"K"}
    /\ seg_map["K"] = "="

\* The positions of main from the first replication action on.
ReplicationSteps == {"local", "create_dir", "art_loop", "copy", "copy_w", "rename",
                     "remote", "scp", "finish"}

DistinctUuids ==
    \A d1, d2 \in DOMAIN device_uuid_map :
        d1 # d2 => device_uuid_map[d1] # device_uuid_map[d2]

\* C17: from the start of replication on, if the discovered uuids are pairwise
\* distinct, there is one artifact for each discovered device, the image and
\* the dump of each artifact are in the temporary directory under canonical
\* names, all distinct, with mode 0600, and no temp file is left there.
C17_ArtifactsReady ==
    (pc \in ReplicationSteps /\ DistinctUuids) =>
        /\ Len(artifacts) = Cardinality(DOMAIN device_uuid_map)
        /\ \A device \in DOMAIN device_uuid_map :
              Cardinality({j \in 1..Len(artifacts) :
                              artifacts[j].uuid = device_uuid_map[device]}) = 1
        /\ \A j \in 1..Len(artifacts) :
              /\ artifacts[j].img_path \in CanonicalImgNames \cap DOMAIN temp_dir.files
              /\ artifacts[j].txt_path \in CanonicalTxtNames \cap DOMAIN temp_dir.files
              /\ temp_dir.files[artifacts[j].img_path].mode = "0600"
              /\ temp_dir.files[artifacts[j].txt_path].mode = "0600"
        /\ Cardinality(ArtifactFiles) = 2 * Len(artifacts)
        /\ DOMAIN temp_dir.files = ArtifactFiles

\* Replication starts with two devices of distinct uuids whose headers have
\* the same hash.
C17_Witness ==
    /\ pc = "local"
    /\ li = 1
    /\ Cardinality(DOMAIN device_uuid_map) = 2
    /\ DistinctUuids
    /\ Len(artifacts) = 2
    /\ artifacts[1].short_hash = artifacts[2].short_hash

\* The temporary files lying in the backup directories: <<directory, name>>.
DestTmpNames == {tmp_path(n) : n \in CanonicalNames}
LeftoverTemps ==
    {p \in LocalDirs \X DestTmpNames : p[2] \in DOMAIN dirs[p[1]].files}

\* C18 as stated: when the run has ended, whatever its result, no backup
\* directory holds a temporary file.
C18_NoLeftoverTemp == pc = "done" => LeftoverTemps = {}

\* C18 amended: a run that ends with success leaves no temporary file in any
\* backup directory; a run that ends because a copy or a rename into a backup
\* directory failed leaves at most one, that of the file being copied, in that
\* directory; while the run goes on the only temporary file is the one being
\* copied or about to be renamed.
C18_LeftoverOnlyOnFailure ==
    /\ Cardinality(LeftoverTemps) <= 1
    /\ (pc = "done" /\ result = "ok") => LeftoverTemps = {}
    /\ \A p \in LeftoverTemps :
        /\ li \in 1..Len(backup_paths)
        /\ p[1] = backup_paths[li]
        /\ p[2] = tmp_path(SrcName)
        /\ \/ pc \in {"copy_w", "rename"}
           \/ /\ pc = "done"
              /\ result = "err"
              /\ status.text \in {"fs::copy", "fs::rename"}
              /\ local_outcome[li] = "failed"

\* The image was copied and renamed, then the rename of the dump failed: its
\* temporary file stays next to the image.
C18_Witness ==
    /\ pc = "done"
    /\ status.text = "fs::rename"
    /\ \E j \in 1..Len(artifacts) :
        /\ <<backup_paths[li], tmp_path(artifacts[j].txt_path)>> \in LeftoverTemps
        /\ artifacts[j].img_path \in DOMAIN dirs[backup_paths[li]].files
        /\ tmp_path(artifacts[j].img_path) \notin DOMAIN dirs[backup_paths[li]].files

====
